---- MODULE Spec2Model ----
(***************************************************************************)
(* Guibas-Stolfi divide-and-conquer Delaunay triangulation over a          *)
(* half-edge arena (v-hill/parallel-delaunay).                             *)
(*                                                                         *)
(* Python lists are modelled as sequences: element i of a Python list s is *)
(* s[i+1].  Edge and point indices stored in records keep their 0-based    *)
(* Python values.  A point [x, y] is the tuple <<x, y>>.                   *)
(***************************************************************************)
EXTENDS Integers, Sequences, FiniteSets, TLC

\* ------------------------------- bounds ---------------------------------
\* input points are drawn from the grid (0..MaxCoord) x (0..MaxCoord)
MaxCoord == 2
\* largest number of input points
MaxPts == 7
\* cap on the arena length: connect is not taken beyond it
MaxArena == 80
\* make_primitives on its own: largest group, and largest number of groups
MaxGroup == 4
MaxGroups == 2
\* splice on its own: largest number of pairs of half-edges in the arena
MaxPairs == 2
\* merge schedules: largest number of points of the pool left out of an input
MaxLeftOut == 1

\* Python's None: a value that no index and no count takes
None == -1

\* -------------------- linear_algebra.py (predicates) --------------------
list_equal(list1, list2) ==
    LET val1 == list1[1] = list2[1]
        val2 == list1[2] = list2[2]
    IN  val1 /\ val2

LexLess(p, q) == p[1] < q[1] \/ (p[1] = q[1] /\ p[2] < q[2])

RECURSIVE lexicographic_sort(_)
lexicographic_sort(S) ==
    IF S = {} THEN <<>>
    ELSE LET m == CHOOSE p \in S : \A q \in S : q = p \/ LexLess(p, q)
         IN  <<m>> \o lexicographic_sort(S \ {m})

\* in_circle that also accepts a point on the circle
in_circle_or_on_circle(a, b, c, d) ==
    LET c1 == a[1] - d[1]
        c2 == b[1] - d[1]
        c3 == c[1] - d[1]
        u1 == a[2] - d[2]
        u2 == b[2] - d[2]
        u3 == c[2] - d[2]
        v1 == c1 * c1 + u1 * u1
        v2 == c2 * c2 + u2 * u2
        v3 == c3 * c3 + u3 * u3
        det == (c1 * ((u2 * v3) - (v2 * u3)))
               - (c2 * ((u1 * v3) - (v1 * u3)))
               + (c3 * ((u1 * v2) - (v1 * u2)))
    IN  det <= 0

in_circle(a, b, c, d) ==
    LET c1 == a[1] - d[1]
        c2 == b[1] - d[1]
        c3 == c[1] - d[1]
        u1 == a[2] - d[2]
        u2 == b[2] - d[2]
        u3 == c[2] - d[2]
        v1 == c1 * c1 + u1 * u1
        v2 == c2 * c2 + u2 * u2
        v3 == c3 * c3 + u3 * u3
        det == (c1 * ((u2 * v3) - (v2 * u3)))
               - (c2 * ((u1 * v3) - (v1 * u3)))
               + (c3 * ((u1 * v2) - (v1 * u2)))
    IN  det < 0

ccw_angle(p1, p2, p3) ==
    (p1[1] - p3[1]) * (p2[2] - p3[2]) - (p1[2] - p3[2]) * (p2[1] - p3[1])

\* on_right that also accepts a point on the line
on_right_or_on_line(p1, p2, p3) == ccw_angle(p1, p2, p3) >= 0

on_right(p1, p2, p3) == ccw_angle(p1, p2, p3) > 0

\* on_left with the comparison of on_right
on_left_as_right(p1, p2, p3) == ccw_angle(p1, p2, p3) > 0

on_left(p1, p2, p3) == ccw_angle(p1, p2, p3) < 0

\* ------------------------- edge_topology.py -----------------------------
Edge(idx, org, dst, s, onxt, oprv) ==
    [index |-> idx, org |-> org, dest |-> dst, sym |-> s,
     onext |-> onxt, oprev |-> oprv, deactivate |-> FALSE]

\* Edge.shift_indices that forgets to shift sym
Edge_shift_indices_no_sym(e, shift_edges, shift_points) ==
    [e EXCEPT !.index = @ + shift_edges,
              !.org = @ + shift_points,
              !.dest = @ + shift_points,
              !.onext = @ + shift_edges,
              !.oprev = @ + shift_edges]

\* Edge.shift_indices that builds the shifted edge anew, deactivate = False
Edge_shift_indices_reactivates(e, shift_edges, shift_points) ==
    Edge(e.index + shift_edges, e.org + shift_points, e.dest + shift_points,
         e.sym + shift_edges, e.onext + shift_edges, e.oprev + shift_edges)

\* Edge.shift_indices
Edge_shift_indices(e, shift_edges, shift_points) ==
    [e EXCEPT !.index = @ + shift_edges,
              !.org = @ + shift_points,
              !.dest = @ + shift_points,
              !.sym = @ + shift_edges,
              !.onext = @ + shift_edges,
              !.oprev = @ + shift_edges]

setup_edge(origin, dest, edge_idx) ==
    LET e1_idx == edge_idx
        e2_idx == edge_idx + 1
        edge == Edge(e1_idx, origin, dest, e2_idx, e1_idx, e1_idx)
        edge_sym == Edge(e2_idx, dest, origin, e1_idx, e2_idx, e2_idx)
    IN  <<edge, edge_sym>>

\* TriangulationEdges.__init__ (with Edges.__init__)
TriangulationEdges(points_subset) ==
    [edges |-> <<>>, num_edges |-> 0, inner |-> None, outer |-> None,
     points |-> points_subset]

\* self.edges[i] and self.points[i] of the Python code
EdgeAt(t, i) == t.edges[i + 1]
PointAt(t, i) == t.points[i + 1]

push_back(t, new_edge) ==
    [t EXCEPT !.edges = Append(@, new_edge), !.num_edges = @ + 1]

set_extreme_edges(t, left_most_edge, right_most_edge) ==
    [t EXCEPT !.inner = left_most_edge, !.outer = right_most_edge]

\* Python evaluates the arguments of a call once, before the call: F
\* applied to the values of its arguments
Call2(F(_, _), a, b) ==
    CHOOSE r \in {F(v[1], v[2]) : v \in {<<a, b>>}} : TRUE

Call3(F(_, _, _), a, b, c) ==
    CHOOSE r \in {F(v[1], v[2], v[3]) : v \in {<<a, b, c>>}} : TRUE

\* splice that writes each oprev with the wrong one of the two edges
splice_oprev_uncrossed(t, edge1, edge2) ==
    LET s1 == [t EXCEPT !.edges[EdgeAt(t, edge1).onext + 1].oprev = edge1]
        s2 == [s1 EXCEPT !.edges[EdgeAt(s1, edge2).onext + 1].oprev = edge2]
        onext_2 == EdgeAt(s2, edge2).onext
        onext_1 == EdgeAt(s2, edge1).onext
        s3 == [s2 EXCEPT !.edges[edge1 + 1].onext = onext_2]
    IN  [s3 EXCEPT !.edges[edge2 + 1].onext = onext_1]

\* splice that swaps the onext fields but does not repair oprev
splice_no_oprev(t, edge1, edge2) ==
    LET onext_2 == EdgeAt(t, edge2).onext
        onext_1 == EdgeAt(t, edge1).onext
        s3 == [t EXCEPT !.edges[edge1 + 1].onext = onext_2]
    IN  [s3 EXCEPT !.edges[edge2 + 1].onext = onext_1]

\* splice that reads onext(edge1) for the second assignment after it has
\* been overwritten (a swap without the temporaries)
splice_swap_lost(t, edge1, edge2) ==
    LET s1 == [t EXCEPT !.edges[EdgeAt(t, edge1).onext + 1].oprev = edge2]
        s2 == [s1 EXCEPT !.edges[EdgeAt(s1, edge2).onext + 1].oprev = edge1]
        s3 == [s2 EXCEPT !.edges[edge1 + 1].onext = EdgeAt(s2, edge2).onext]
        s4 == [s3 EXCEPT !.edges[edge2 + 1].onext = EdgeAt(s3, edge1).onext]
    IN  s4

\* Edges.splice: four assignments, in the order of the code
splice(t, edge1, edge2) ==
    LET s1 == [t EXCEPT !.edges[EdgeAt(t, edge1).onext + 1].oprev = edge2]
        s2 == [s1 EXCEPT !.edges[EdgeAt(s1, edge2).onext + 1].oprev = edge1]
        onext_2 == EdgeAt(s2, edge2).onext
        onext_1 == EdgeAt(s2, edge1).onext
        s3 == [s2 EXCEPT !.edges[edge1 + 1].onext = onext_2]
        s4 == [s3 EXCEPT !.edges[edge2 + 1].onext = onext_1]
    IN  s4

\* Edges.connect: the subdivision after the call; the index returned is
\* the num_edges of the subdivision before the call (connect_index)
connect_index(t) == t.num_edges

\* connect that splices the new edge after onext(sym(edge1)) instead of
\* oprev(sym(edge1))
connect_after_onext(t, edge1, edge2) ==
    LET current_index == t.num_edges
        pair == setup_edge(EdgeAt(t, edge1).dest, EdgeAt(t, edge2).org,
                           current_index)
        edge == pair[1]
        edge_sym == pair[2]
        t1 == push_back(t, edge)
        t2 == push_back(t1, edge_sym)
        edge1_sym_onext == EdgeAt(t2, EdgeAt(t2, edge1).sym).onext
        t3 == Call3(splice, t2, edge.index, edge1_sym_onext)
        t4 == Call3(splice, t3, EdgeAt(t3, edge.index).sym, edge2)
    IN  t4

connect(t, edge1, edge2) ==
    LET current_index == t.num_edges
        pair == setup_edge(EdgeAt(t, edge1).dest, EdgeAt(t, edge2).org,
                           current_index)
        edge == pair[1]
        edge_sym == pair[2]
        t1 == push_back(t, edge)
        t2 == push_back(t1, edge_sym)
        edge1_sym_oprev == EdgeAt(t2, EdgeAt(t2, edge1).sym).oprev
        t3 == Call3(splice, t2, edge.index, edge1_sym_oprev)
        t4 == Call3(splice, t3, EdgeAt(t3, edge.index).sym, edge2)
    IN  t4

\* kill_edge that marks the two half-edges but leaves them in their rings
kill_edge_no_splice(t, e) ==
    LET t3 == [t EXCEPT !.edges[e + 1].deactivate = TRUE]
    IN  [t3 EXCEPT !.edges[EdgeAt(t3, e).sym + 1].deactivate = TRUE]

\* kill_edge that marks e but forgets to mark its sym
kill_edge_one_side(t, e) ==
    LET t1 == Call3(splice, t, e, EdgeAt(t, e).oprev)
        t2 == Call3(splice, t1, EdgeAt(t1, e).sym,
                    EdgeAt(t1, EdgeAt(t1, e).sym).oprev)
    IN  [t2 EXCEPT !.edges[e + 1].deactivate = TRUE]

kill_edge(t, e) ==
    LET t1 == Call3(splice, t, e, EdgeAt(t, e).oprev)
        t2 == Call3(splice, t1, EdgeAt(t1, e).sym,
                    EdgeAt(t1, EdgeAt(t1, e).sym).oprev)
        t3 == [t2 EXCEPT !.edges[e + 1].deactivate = TRUE]
        t4 == [t3 EXCEPT !.edges[EdgeAt(t3, e).sym + 1].deactivate = TRUE]
    IN  t4

\* Edges.filter_deactivated
filter_deactivated(t) ==
    LET kept(e) == e.deactivate = FALSE
    IN  [t EXCEPT !.edges = SelectSeq(@, kept)]

\* TriangulationEdges.shift_indices
shift_indices(t, shift_edges, shift_points) ==
    [t EXCEPT !.edges = [i \in DOMAIN @ |->
                           Edge_shift_indices(@[i], shift_edges, shift_points)]]

merge_hulls(t, second_hull) ==
    LET len1 == t.num_edges
        len2 == second_hull.num_edges
        shifted == shift_indices(second_hull, len1, Len(t.points))
    IN  [t EXCEPT !.edges = @ \o shifted.edges, !.num_edges = len1 + len2]

\* TriangulationEdges.combine_triangulations (the method)
hull_combine_triangulations(t, triangulation) ==
    LET m == merge_hulls(t, triangulation)
    IN  [m EXCEPT !.points = @ \o triangulation.points]

\* -------------------- points_tools/split_list.py ------------------------
Min(a, b) == IF a < b THEN a ELSE b

\* Python slice s[i:j], clipped to the list
Slice(s, i, j) == SubSeq(s, i + 1, Min(j, Len(s)))

\* Python range(start, stop, step) as a sequence, step > 0
Range(start, stop, step) ==
    [k \in 1..((stop - start + step - 1) \div step) |-> start + (k - 1) * step]

\* groups_of_3 whose triples, after the two pairs, start at index 3 instead
\* of 4
groups_of_3_from_3(points) ==
    LET num == Len(points)
        r0 == Range(0, num, 3)
        r1a == Range(0, 4, 2)
        r1b == Range(3, num, 3)
        r2 == Range(2, num, 3)
    IN  IF num % 3 = 0
        THEN [k \in DOMAIN r0 |-> Slice(points, r0[k], r0[k] + 3)]
        ELSE IF num % 3 = 1
        THEN [k \in DOMAIN r1a |-> Slice(points, r1a[k], r1a[k] + 2)]
             \o [k \in DOMAIN r1b |-> Slice(points, r1b[k], r1b[k] + 3)]
        ELSE <<  <<points[1], points[2]>>  >>
             \o [k \in DOMAIN r2 |-> Slice(points, r2[k], r2[k] + 3)]

groups_of_3(points) ==
    LET num == Len(points)
        r0 == Range(0, num, 3)
        r1a == Range(0, 4, 2)
        r1b == Range(4, num, 3)
        r2 == Range(2, num, 3)
    IN  IF num % 3 = 0
        THEN [k \in DOMAIN r0 |-> Slice(points, r0[k], r0[k] + 3)]
        ELSE IF num % 3 = 1
        THEN [k \in DOMAIN r1a |-> Slice(points, r1a[k], r1a[k] + 2)]
             \o [k \in DOMAIN r1b |-> Slice(points, r1b[k], r1b[k] + 3)]
        ELSE <<  <<points[1], points[2]>>  >>
             \o [k \in DOMAIN r2 |-> Slice(points, r2[k], r2[k] + 3)]

\* ---------------------- triangulation_primitives.py ---------------------
line_primitive(pts_subset) ==
    LET pair == setup_edge(0, 1, 0)
        edge == pair[1]
        edge_sym == pair[2]
        line0 == TriangulationEdges(pts_subset)
        line1 == push_back(line0, edge)
        line2 == push_back(line1, edge_sym)
        left_most_edge == edge.index
        right_most_edge == EdgeAt(line2, edge.index).sym
    IN  set_extreme_edges(line2, left_most_edge, right_most_edge)

triangle_primitive(pts_subset) ==
    LET triang0 == TriangulationEdges(pts_subset)
        pair1 == setup_edge(0, 1, 0)
        edge1 == pair1[1]
        edge1_sym == pair1[2]
        triang1 == push_back(push_back(triang0, edge1), edge1_sym)
        pair2 == setup_edge(1, 2, 2)
        edge2 == pair2[1]
        edge2_sym == pair2[2]
        triang2 == push_back(push_back(triang1, edge2), edge2_sym)
        triang3 == Call3(splice, triang2, edge1_sym.index, edge2.index)
        pt1 == pts_subset[EdgeAt(triang3, edge1.index).org + 1]
        pt2 == pts_subset[EdgeAt(triang3, edge1.index).dest + 1]
        pt3 == pts_subset[2 + 1]
        c == connect_index(triang3)
        closed == Call3(connect, triang3, edge2.index, edge1.index)
    IN  IF on_right(pt1, pt2, pt3)
        THEN set_extreme_edges(closed, edge1.index, edge2_sym.index)
        ELSE IF on_left(pt1, pt2, pt3)
        THEN set_extreme_edges(closed, EdgeAt(closed, c).sym, c)
        ELSE set_extreme_edges(triang3, edge1.index, edge2_sym.index)

\* Python [s[i:i + 2] for i in range(0, len(s), 2)]
PairUp(s) ==
    LET r == Range(0, Len(s), 2)
    IN  [k \in DOMAIN r |-> Slice(s, r[k], r[k] + 2)]

\* ------------------------------- state ----------------------------------
VARIABLES
    pts_subset,      \* triangulate: the input list
    split_pts,       \* make_primitives: the groups still to be visited
    primitives,      \* make_primitives: the primitives built so far
    groups,          \* list of groups (lists of one or two subdivisions)
    triangulations,  \* merge_triangulations: the merged subdivisions
    gi,              \* merge_triangulations: position of `group' in groups
    left_e,          \* lowest_common_tangent
    right_e,         \* lowest_common_tangent
    base,            \* zip_hulls
    rcand,           \* zip_hulls / rcand_func
    lcand,           \* zip_hulls / lcand_func
    rcand_valid,     \* zip_hulls
    lcand_valid,     \* zip_hulls
    pc,              \* the statement the program is at
    arg,             \* a function called on its own: its arguments
    ret              \* a function called on its own: its result so far

vars == <<pts_subset, split_pts, primitives, groups, triangulations, gi,
          left_e, right_e, base, rcand, lcand, rcand_valid, lcand_valid, pc,
          arg, ret>>

Grid == (0..MaxCoord) \X (0..MaxCoord)

\* the convex pentagon of scenario S4, sorted
Pentagon == lexicographic_sort({<<0, 0>>, <<2, 0>>, <<3, 2>>, <<1, 3>>, <<-1, 2>>})

\* a sorted list of 10 points: it is split into four groups, so that the
\* second round of merges joins two subdivisions that are themselves the
\* results of merges
TenPoints ==
    lexicographic_sort({<<0, 0>>, <<0, 1>>, <<1, 0>>, <<1, 3>>, <<2, 4>>,
                        <<3, 0>>, <<4, 1>>, <<4, 2>>, <<4, 3>>, <<4, 4>>})

Inputs ==
    {lexicographic_sort(S) : S \in {T \in SUBSET Grid : Cardinality(T) <= MaxPts}}
    \cup {Pentagon, TenPoints}

Init ==
    /\ pts_subset \in Inputs
    /\ split_pts = <<>>
    /\ primitives = <<>>
    /\ groups = <<>>
    /\ triangulations = <<>>
    /\ gi = 0
    /\ left_e = None
    /\ right_e = None
    /\ base = None
    /\ rcand = None
    /\ lcand = None
    /\ rcand_valid = FALSE
    /\ lcand_valid = FALSE
    /\ pc = "triangulate"
    /\ arg = None
    /\ ret = None

\* the subdivision merge_triangulations is working on: group[0], which
\* combine_triangulations and zip_hulls mutate in place
triang == groups[gi][1]

scratch == <<left_e, right_e, base, rcand, lcand, rcand_valid, lcand_valid>>

\* triangulate, line 352
Split ==
    /\ pc = "triangulate"
    /\ split_pts' = groups_of_3(pts_subset)
    /\ pc' = "make_primitives"
    /\ UNCHANGED <<arg, ret, pts_subset, primitives, groups, triangulations, gi, scratch>>

\* make_primitives: one iteration of the loop over split_pts
MakePrimitive ==
    /\ pc = "make_primitives"
    /\ split_pts # <<>>
    /\ LET group == Head(split_pts)
       IN  \/ /\ Len(group) = 2
              /\ primitives' = Append(primitives, line_primitive(group))
              /\ split_pts' = Tail(split_pts)
              /\ pc' = pc
           \/ /\ Len(group) = 3
              /\ primitives' = Append(primitives, triangle_primitive(group))
              /\ split_pts' = Tail(split_pts)
              /\ pc' = pc
           \/ /\ Len(group) = 0
              /\ pc' = "raised"
              /\ UNCHANGED <<primitives, split_pts>>
           \/ /\ Len(group) \notin {0, 2, 3}
              /\ split_pts' = Tail(split_pts)
              /\ UNCHANGED <<primitives, pc>>
    /\ UNCHANGED <<arg, ret, pts_subset, groups, triangulations, gi, scratch>>

\* make_primitives returns; triangulate, line 354, pairs the primitives
MakeGroups ==
    /\ pc = "make_primitives"
    /\ split_pts = <<>>
    /\ groups' = PairUp(primitives)
    /\ primitives' = <<>>
    /\ pc' = "recursive_group_merge"
    /\ UNCHANGED <<arg, ret, pts_subset, split_pts, triangulations, gi, scratch>>

\* recursive_group_merge: the loop test; groups[0] of an empty list raises
RecursiveGroupMerge ==
    /\ pc = "recursive_group_merge"
    /\ \/ /\ groups = <<>>
          /\ pc' = "raised"
          /\ UNCHANGED <<triangulations, gi>>
       \/ /\ groups # <<>>
          /\ Len(groups[1]) # 1
          /\ triangulations' = <<>>
          /\ gi' = 1
          /\ pc' = "merge_triangulations"
       \/ /\ groups # <<>>
          /\ Len(groups[1]) = 1
          /\ pc' = "done"
          /\ UNCHANGED <<triangulations, gi>>
    /\ UNCHANGED <<arg, ret, pts_subset, split_pts, primitives, groups, scratch>>

\* merge_triangulations: the head of the loop over groups, and the return
MergeTriangulations ==
    /\ pc = "merge_triangulations"
    /\ \/ /\ gi <= Len(groups)
          /\ Len(groups[gi]) = 2
          /\ left_e' = groups[gi][1].outer
          /\ right_e' = groups[gi][2].inner
          /\ pc' = "lowest_common_tangent"
          /\ UNCHANGED <<groups, triangulations, gi>>
       \/ /\ gi <= Len(groups)
          /\ Len(groups[gi]) # 2
          /\ triangulations' = Append(triangulations, groups[gi][1])
          /\ gi' = gi + 1
          /\ UNCHANGED <<groups, left_e, right_e, pc>>
       \/ /\ gi > Len(groups)
          /\ groups' = PairUp(triangulations)
          /\ triangulations' = <<>>
          /\ gi' = 0
          /\ pc' = "recursive_group_merge"
          /\ UNCHANGED <<left_e, right_e>>
    /\ UNCHANGED <<arg, ret, pts_subset, split_pts, primitives, base, rcand, lcand,
                   rcand_valid, lcand_valid>>

\* ----------------------------- triangulation.py --------------------------
h_left == groups[gi][1]
h_right == groups[gi][2]

\* lowest_common_tangent that tests dest(right_e) where the code tests
\* org(right_e)
LowestCommonTangent_tests_dest ==
    /\ pc = "lowest_common_tangent"
    /\ LET pts_left == h_left.points
           pts_right == h_right.points
           p1 == pts_left[EdgeAt(h_left, left_e).org + 1]
           p2 == pts_left[EdgeAt(h_left, left_e).dest + 1]
           p4 == pts_right[EdgeAt(h_right, right_e).org + 1]
           p5 == pts_right[EdgeAt(h_right, right_e).dest + 1]
       IN  \/ /\ on_right(p1, p2, pts_right[EdgeAt(h_right, right_e).dest + 1])
              /\ left_e' = EdgeAt(h_left, EdgeAt(h_left, left_e).sym).onext
              /\ UNCHANGED <<right_e, pc>>
           \/ /\ ~on_right(p1, p2, pts_right[EdgeAt(h_right, right_e).dest + 1])
              /\ on_left(p4, p5, pts_left[EdgeAt(h_left, left_e).org + 1])
              /\ right_e' = EdgeAt(h_right, EdgeAt(h_right, right_e).sym).oprev
              /\ UNCHANGED <<left_e, pc>>
           \/ /\ ~on_right(p1, p2, pts_right[EdgeAt(h_right, right_e).dest + 1])
              /\ ~on_left(p4, p5, pts_left[EdgeAt(h_left, left_e).org + 1])
              /\ pc' = "combine_triangulations"
              /\ UNCHANGED <<left_e, right_e>>
    /\ UNCHANGED <<arg, ret, pts_subset, split_pts, primitives, groups, triangulations,
                   gi, base, rcand, lcand, rcand_valid, lcand_valid>>

\* lowest_common_tangent: one iteration of the while loop.  p1, p2, p4, p5
\* of the code are always the end points of left_e and right_e.
LowestCommonTangent ==
    /\ pc = "lowest_common_tangent"
    /\ LET pts_left == h_left.points
           pts_right == h_right.points
           p1 == pts_left[EdgeAt(h_left, left_e).org + 1]
           p2 == pts_left[EdgeAt(h_left, left_e).dest + 1]
           p4 == pts_right[EdgeAt(h_right, right_e).org + 1]
           p5 == pts_right[EdgeAt(h_right, right_e).dest + 1]
       IN  \/ /\ on_right(p1, p2, pts_right[EdgeAt(h_right, right_e).org + 1])
              /\ left_e' = EdgeAt(h_left, EdgeAt(h_left, left_e).sym).onext
              /\ UNCHANGED <<right_e, pc>>
           \/ /\ ~on_right(p1, p2, pts_right[EdgeAt(h_right, right_e).org + 1])
              /\ on_left(p4, p5, pts_left[EdgeAt(h_left, left_e).org + 1])
              /\ right_e' = EdgeAt(h_right, EdgeAt(h_right, right_e).sym).oprev
              /\ UNCHANGED <<left_e, pc>>
           \/ /\ ~on_right(p1, p2, pts_right[EdgeAt(h_right, right_e).org + 1])
              /\ ~on_left(p4, p5, pts_left[EdgeAt(h_left, left_e).org + 1])
              /\ pc' = "combine_triangulations"
              /\ UNCHANGED <<left_e, right_e>>
    /\ UNCHANGED <<arg, ret, pts_subset, split_pts, primitives, groups, triangulations,
                   gi, base, rcand, lcand, rcand_valid, lcand_valid>>

\* combine_triangulations(ldi, rdi, hull_left, hull_right): the subdivision
\* returned, and the base edge returned
\* combine_triangulations that forgets rdo += hull_left.num_edges
combine_edges_rdo_unshifted(ldi, rdi0, hull_left, hull_right) ==
    LET ldo0 == hull_left.inner
        rdi == rdi0 + hull_left.num_edges
        rdo0 == hull_right.outer
        edges0 == hull_combine_triangulations(hull_left, hull_right)
        base0 == connect_index(edges0)
        edges == Call3(connect, edges0, EdgeAt(edges0, ldi).sym, rdi)
        ldi_org == edges.points[EdgeAt(edges, ldi).org + 1]
        ldo_org == edges.points[EdgeAt(edges, ldo0).org + 1]
        rdi_org == edges.points[EdgeAt(edges, rdi).org + 1]
        rdo_org == edges.points[EdgeAt(edges, rdo0).org + 1]
        ldo == IF list_equal(ldi_org, ldo_org) THEN base0 ELSE ldo0
        rdo == IF list_equal(rdi_org, rdo_org)
               THEN EdgeAt(edges, base0).sym ELSE rdo0
    IN  set_extreme_edges(edges, ldo, rdo)

combine_edges(ldi, rdi0, hull_left, hull_right) ==
    LET ldo0 == hull_left.inner
        rdi == rdi0 + hull_left.num_edges
        rdo0 == hull_right.outer + hull_left.num_edges
        edges0 == hull_combine_triangulations(hull_left, hull_right)
        base0 == connect_index(edges0)
        edges == Call3(connect, edges0, EdgeAt(edges0, ldi).sym, rdi)
        ldi_org == edges.points[EdgeAt(edges, ldi).org + 1]
        ldo_org == edges.points[EdgeAt(edges, ldo0).org + 1]
        rdi_org == edges.points[EdgeAt(edges, rdi).org + 1]
        rdo_org == edges.points[EdgeAt(edges, rdo0).org + 1]
        ldo == IF list_equal(ldi_org, ldo_org) THEN base0 ELSE ldo0
        rdo == IF list_equal(rdi_org, rdo_org)
               THEN EdgeAt(edges, base0).sym ELSE rdo0
    IN  set_extreme_edges(edges, ldo, rdo)

combine_base(ldi, rdi0, hull_left, hull_right) ==
    connect_index(hull_combine_triangulations(hull_left, hull_right))

\* merge_triangulations, lines 290-291: hull_left is changed in place and
\* takes over the records of hull_right, which is not used again
CombineTriangulations ==
    /\ pc = "combine_triangulations"
    /\ groups' = [groups EXCEPT ![gi] =
                    <<combine_edges(left_e, right_e, h_left, h_right)>>]
    /\ base' = combine_base(left_e, right_e, h_left, h_right)
    /\ left_e' = None
    /\ right_e' = None
    /\ pc' = "zip_hulls"
    /\ UNCHANGED <<arg, ret, pts_subset, split_pts, primitives, triangulations, gi,
                   rcand, lcand, rcand_valid, lcand_valid>>

base1 == triang.points[EdgeAt(triang, base).org + 1]
base2 == triang.points[EdgeAt(triang, base).dest + 1]

\* zip_hulls, lines 232-248: the head of an iteration, and the break that
\* ends the merge of this group (merge_triangulations, lines 294-295)
ZipHulls ==
    /\ pc = "zip_hulls"
    /\ LET rc == EdgeAt(triang, EdgeAt(triang, base).sym).onext
           pt1 == triang.points[EdgeAt(triang, rc).dest + 1]
           rv == on_right(base1, base2, pt1)
           lc == EdgeAt(triang, base).oprev
           pt2 == triang.points[EdgeAt(triang, lc).dest + 1]
           lv == on_right(base1, base2, pt2)
       IN  \/ /\ ~rv /\ ~lv
              /\ triangulations' = Append(triangulations, triang)
              /\ gi' = gi + 1
              /\ base' = None
              /\ pc' = "merge_triangulations"
              /\ UNCHANGED <<rcand, lcand, rcand_valid, lcand_valid>>
           \/ /\ rv \/ lv
              /\ rcand' = rc
              /\ lcand' = lc
              /\ rcand_valid' = rv
              /\ lcand_valid' = lv
              /\ pc' = IF rv THEN "rcand_func" ELSE "lcand_func"
              /\ UNCHANGED <<triangulations, gi, base>>
    /\ UNCHANGED <<arg, ret, pts_subset, split_pts, primitives, groups, left_e, right_e>>

\* rcand_func: one iteration of the loop
RcandFunc ==
    /\ pc = "rcand_func"
    /\ LET rcand_onext_dest == EdgeAt(triang, EdgeAt(triang, rcand).onext).dest
           rcand_dest == EdgeAt(triang, rcand).dest
           ccw_test == on_right(base1, base2, triang.points[rcand_onext_dest + 1])
           next_cand_invalid == in_circle(base2, base1,
                                          triang.points[rcand_dest + 1],
                                          triang.points[rcand_onext_dest + 1])
       IN  \/ /\ ccw_test /\ next_cand_invalid
              /\ groups' = [groups EXCEPT ![gi][1] = Call2(kill_edge, triang, rcand)]
              /\ rcand' = EdgeAt(triang, rcand).onext
              /\ pc' = pc
           \/ /\ ~(ccw_test /\ next_cand_invalid)
              /\ pc' = IF lcand_valid THEN "lcand_func" ELSE "connect"
              /\ UNCHANGED <<groups, rcand>>
    /\ UNCHANGED <<arg, ret, pts_subset, split_pts, primitives, triangulations, gi,
                   left_e, right_e, base, lcand, rcand_valid, lcand_valid>>

\* lcand_func: one iteration of the loop
LcandFunc ==
    /\ pc = "lcand_func"
    /\ LET lcand_oprev_dest == EdgeAt(triang, EdgeAt(triang, lcand).oprev).dest
           lcand_dest == EdgeAt(triang, lcand).dest
           ccw_test == on_right(base1, base2, triang.points[lcand_oprev_dest + 1])
           next_cand_invalid == in_circle(base2, base1,
                                          triang.points[lcand_dest + 1],
                                          triang.points[lcand_oprev_dest + 1])
       IN  \/ /\ ccw_test /\ next_cand_invalid
              /\ groups' = [groups EXCEPT ![gi][1] = Call2(kill_edge, triang, lcand)]
              /\ lcand' = EdgeAt(triang, lcand).oprev
              /\ pc' = pc
           \/ /\ ~(ccw_test /\ next_cand_invalid)
              /\ pc' = "connect"
              /\ UNCHANGED <<groups, lcand>>
    /\ UNCHANGED <<arg, ret, pts_subset, split_pts, primitives, triangulations, gi,
                   left_e, right_e, base, rcand, rcand_valid, lcand_valid>>

\* candidate_decider without the in-circle test: a valid left candidate
\* always wins
candidate_decider_no_circle(rc, lc, lc_valid, triangulation) == lc_valid

candidate_decider(rc, lc, lc_valid, triangulation) ==
    LET pt1 == triangulation.points[EdgeAt(triangulation, rc).dest + 1]
        pt2 == triangulation.points[EdgeAt(triangulation, rc).org + 1]
        pt3 == triangulation.points[EdgeAt(triangulation, lc).org + 1]
        pt4 == triangulation.points[EdgeAt(triangulation, lc).dest + 1]
    IN  lc_valid /\ in_circle(pt1, pt2, pt3, pt4)

\* zip_hulls, lines 256-264: choose the candidate and add the new base edge
ZipConnect ==
    /\ pc = "connect"
    /\ triang.num_edges + 2 <= MaxArena
    /\ LET lcand_strong_valid == candidate_decider(rcand, lcand, lcand_valid, triang)
       IN  \/ /\ ~rcand_valid \/ lcand_strong_valid
              /\ groups' = [groups EXCEPT ![gi][1] =
                              Call3(connect, triang, lcand,
                                    EdgeAt(triang, base).sym)]
           \/ /\ ~(~rcand_valid \/ lcand_strong_valid)
              /\ groups' = [groups EXCEPT ![gi][1] =
                              Call3(connect, triang, EdgeAt(triang, base).sym,
                                    EdgeAt(triang, rcand).sym)]
    /\ base' = connect_index(triang)
    /\ rcand' = None
    /\ lcand' = None
    /\ rcand_valid' = FALSE
    /\ lcand_valid' = FALSE
    /\ pc' = "zip_hulls"
    /\ UNCHANGED <<arg, ret, pts_subset, split_pts, primitives, triangulations, gi,
                   left_e, right_e>>

Next ==
    \/ Split
    \/ MakePrimitive
    \/ MakeGroups
    \/ RecursiveGroupMerge
    \/ MergeTriangulations
    \/ LowestCommonTangent
    \/ CombineTriangulations
    \/ ZipHulls
    \/ RcandFunc
    \/ LcandFunc
    \/ ZipConnect

Spec == Init /\ [][Next]_vars

\* the program runs on: every enabled statement is eventually executed
FairSpec == Spec /\ WF_vars(Next)

\* ------------------------ geometry of the claims -------------------------
\* twice the signed area of a, b, c: positive iff a, b, c turn
\* counterclockwise with the y axis pointing up
Orient(a, b, c) ==
    (b[1] - a[1]) * (c[2] - a[2]) - (b[2] - a[2]) * (c[1] - a[1])

SqNorm(a, d) == (a[1] - d[1]) * (a[1] - d[1]) + (a[2] - d[2]) * (a[2] - d[2])

\* the lifted 3x3 determinant: positive iff d is strictly inside the circle
\* through a, b, c taken counterclockwise
InCircleDet(a, b, c, d) ==
      (a[1] - d[1]) * ((b[2] - d[2]) * SqNorm(c, d) - SqNorm(b, d) * (c[2] - d[2]))
    - (a[2] - d[2]) * ((b[1] - d[1]) * SqNorm(c, d) - SqNorm(b, d) * (c[1] - d[1]))
    + SqNorm(a, d) * ((b[1] - d[1]) * (c[2] - d[2]) - (b[2] - d[2]) * (c[1] - d[1]))

\* d is strictly inside the circle through a, b, c, whatever their order
StrictlyInCircumcircle(a, b, c, d) ==
    Orient(a, b, c) * InCircleDet(a, b, c, d) > 0

\* d is in the closed triangle a, b, c
InClosedTriangle(a, b, c, d) ==
    LET s == Orient(a, b, c)
    IN  /\ s * Orient(a, b, d) >= 0
        /\ s * Orient(b, c, d) >= 0
        /\ s * Orient(c, a, d) >= 0

\* every subdivision the program holds
Subdivisions ==
    {primitives[i] : i \in DOMAIN primitives}
    \cup {triangulations[i] : i \in DOMAIN triangulations}
    \cup UNION {{groups[i][j] : j \in DOMAIN groups[i]} : i \in DOMAIN groups}

ArenaIdx(t) == 0..(Len(t.edges) - 1)
PointIdx(t) == 0..(Len(t.points) - 1)
ActiveEdges(t) == {i \in ArenaIdx(t) : ~EdgeAt(t, i).deactivate}

\* the undirected edges of t, as sets of two point indices
EdgePairs(t) == {{EdgeAt(t, i).org, EdgeAt(t, i).dest} : i \in ActiveEdges(t)}

\* the triangular bounded faces of t, as sets of three point indices: three
\* points joined pairwise, not collinear, no other point in the triangle
TriangleFaces(t) ==
    LET E == EdgePairs(t)
        P == t.points
    IN  {tri \in SUBSET PointIdx(t) :
           /\ Cardinality(tri) = 3
           /\ \A a, b \in tri : a # b => {a, b} \in E
           /\ \E a, b, c \in tri :
                 /\ a < b /\ b < c
                 /\ Orient(P[a + 1], P[b + 1], P[c + 1]) # 0
                 /\ \A d \in PointIdx(t) \ tri :
                       ~InClosedTriangle(P[a + 1], P[b + 1], P[c + 1], P[d + 1])}

\* the subdivision triangulate returns: groups[0][0]
Returned == groups[1][1]
Done == pc = "done"

\* C1: the subdivision returned for n >= 2 sorted distinct points has the
\* Delaunay property: no input point lies strictly inside the circumcircle
\* of a triangular bounded face
DelaunayProperty ==
    (Done /\ Len(pts_subset) >= 2) =>
        \A tri \in TriangleFaces(Returned) :
            \A a, b, c \in tri : (a < b /\ b < c) =>
                \A d \in DOMAIN pts_subset :
                    ~StrictlyInCircumcircle(pts_subset[a + 1], pts_subset[b + 1],
                                            pts_subset[c + 1], pts_subset[d])

\* a returned subdivision of at least six points from which the zip has
\* removed an edge and which has triangular faces
DelaunayWitness ==
    /\ Done
    /\ Len(pts_subset) >= 6
    /\ \E i \in ArenaIdx(Returned) : EdgeAt(Returned, i).deactivate
    /\ Cardinality(TriangleFaces(Returned)) >= 4

\* p lies strictly between a and b on the segment a b
OnOpenSegment(a, b, p) ==
    /\ Orient(a, b, p) = 0
    /\ (p[1] - a[1]) * (p[1] - b[1]) + (p[2] - a[2]) * (p[2] - b[2]) < 0

\* the segments a b and c d cross at a point interior to both
ProperlyCross(a, b, c, d) ==
    /\ Orient(a, b, c) * Orient(a, b, d) < 0
    /\ Orient(c, d, a) * Orient(c, d, b) < 0

AllCollinear(P) ==
    \A i, j, k \in DOMAIN P : Orient(P[i], P[j], P[k]) = 0

\* a b is an edge of the convex hull of the points P: every point is on one
\* side of the line a b or on it, and none is strictly between a and b
HullEdge(P, a, b) ==
    /\ a # b
    /\ \/ \A k \in DOMAIN P : Orient(a, b, P[k]) >= 0
       \/ \A k \in DOMAIN P : Orient(a, b, P[k]) <= 0
    /\ \A k \in DOMAIN P : ~OnOpenSegment(a, b, P[k])

\* the straight-line drawing of the non-deactivated edges is planar
Planar(t) ==
    LET E == EdgePairs(t)
        P == t.points
    IN  \A e \in E : \A a, b \in e : a < b =>
          /\ \A k \in DOMAIN P : ~OnOpenSegment(P[a + 1], P[b + 1], P[k])
          /\ \A f \in E : \A c, d \in f : c < d =>
                ~ProperlyCross(P[a + 1], P[b + 1], P[c + 1], P[d + 1])

\* on the side s (1: left, -1: right) of the line from a to b the edge a b
\* bounds a triangular face
FaceOnSide(t, a, b, s) ==
    \E tri \in TriangleFaces(t) :
        /\ a \in tri /\ b \in tri
        /\ \E c \in tri \ {a, b} :
              s * Orient(t.points[a + 1], t.points[b + 1], t.points[c + 1]) > 0

\* no point lies strictly on the side s of the line from a to b, so the
\* unbounded face is on that side of the edge
OutsideOnSide(t, a, b, s) ==
    \A k \in DOMAIN t.points :
        s * Orient(t.points[a + 1], t.points[b + 1], t.points[k]) <= 0

Sides == {1, -1}

\* C2: for n >= 3 sorted distinct points, not all collinear, the returned
\* edges form a planar triangulation of the convex hull: the drawing is
\* planar, every hull edge is an edge, and each side of each edge is either
\* a triangular face or the outside of the hull (so the edges on the
\* unbounded face are the hull edges and every bounded face is a triangle)
HullTriangulation ==
    (Done /\ Len(pts_subset) >= 3 /\ ~AllCollinear(pts_subset)) =>
        /\ Planar(Returned)
        /\ \A a, b \in PointIdx(Returned) :
              (a < b /\ HullEdge(pts_subset, pts_subset[a + 1], pts_subset[b + 1]))
                  => {a, b} \in EdgePairs(Returned)
        /\ \A e \in EdgePairs(Returned) : \A a, b \in e : a < b =>
              /\ \A s \in Sides :
                    FaceOnSide(Returned, a, b, s) \/ OutsideOnSide(Returned, a, b, s)
              /\ (\E s \in Sides : ~FaceOnSide(Returned, a, b, s))
                    <=> HullEdge(pts_subset, pts_subset[a + 1], pts_subset[b + 1])

\* a returned triangulation with an interior point, collinear points on the
\* hull boundary and an edge removed by the zip
HullTriangulationWitness ==
    /\ Done
    /\ Len(pts_subset) >= 6
    /\ ~AllCollinear(pts_subset)
    /\ \E i \in ArenaIdx(Returned) : EdgeAt(Returned, i).deactivate
    /\ \E e \in EdgePairs(Returned) : \A a, b \in e : a < b =>
          \A s \in Sides : FaceOnSide(Returned, a, b, s)
    /\ \E i, j, k \in DOMAIN pts_subset :
          /\ OnOpenSegment(pts_subset[i], pts_subset[j], pts_subset[k])
          /\ \A m \in DOMAIN pts_subset :
                Orient(pts_subset[i], pts_subset[j], pts_subset[m]) >= 0

\* general position: no three points collinear, no four on a circle
GeneralPosition(P) ==
    /\ \A i, j, k \in DOMAIN P :
          (i < j /\ j < k) => Orient(P[i], P[j], P[k]) # 0
    /\ \A i, j, k, m \in DOMAIN P :
          (i < j /\ j < k /\ k < m) => InCircleDet(P[i], P[j], P[k], P[m]) # 0

\* the number k of points on the convex hull
HullPointCount(P) ==
    Cardinality({i \in DOMAIN P : \E j \in DOMAIN P : HullEdge(P, P[i], P[j])})

\* the undirected edges as the read side enumerates them: index < sym
UndirectedEdges(t) == {i \in ActiveEdges(t) : i < EdgeAt(t, i).sym}

\* C3: for n >= 3 points in general position with k hull points the result
\* has 3n - k - 3 undirected edges and 2n - k - 2 triangles; the pentagon of
\* scenario S4 gives 7 edges and 3 triangles
EdgeCount ==
    /\ (Done /\ Len(pts_subset) >= 3 /\ GeneralPosition(pts_subset)) =>
          LET n == Len(pts_subset)
              k == HullPointCount(pts_subset)
          IN  /\ Cardinality(UndirectedEdges(Returned)) = 3 * n - k - 3
              /\ Cardinality(TriangleFaces(Returned)) = 2 * n - k - 2
    /\ (Done /\ pts_subset = Pentagon) =>
          /\ Cardinality(UndirectedEdges(Returned)) = 7
          /\ Cardinality(TriangleFaces(Returned)) = 3

\* a returned subdivision of points in general position, one of them
\* inside the hull
EdgeCountWitness ==
    /\ Done
    /\ Len(pts_subset) >= 5
    /\ GeneralPosition(pts_subset)
    /\ HullPointCount(pts_subset) < Len(pts_subset)

\* C4: in every reachable state every non-deactivated half-edge e of every
\* subdivision has sym(sym(e)) = e, sym(e) # e, org(e) = dest(sym(e)), and
\* e and sym(e) are the arena indices k, k + 1 for an even k
SymPairing ==
    \A t \in Subdivisions : \A e \in ActiveEdges(t) :
        LET s == EdgeAt(t, e).sym
        IN  /\ s \in ArenaIdx(t)
            /\ EdgeAt(t, s).sym = e
            /\ s # e
            /\ EdgeAt(t, e).org = EdgeAt(t, s).dest
            /\ s = (IF e % 2 = 0 THEN e + 1 ELSE e - 1)

\* a merge is under way on a subdivision whose records were shifted by
\* combine_triangulations, extended by connect and pruned by kill_edge
SymPairingWitness ==
    /\ pc \in {"rcand_func", "lcand_func", "connect"}
    /\ triang.num_edges >= 14
    /\ \E i \in ArenaIdx(triang) : EdgeAt(triang, i).deactivate
    /\ \E i \in ActiveEdges(triang) : i >= 14

\* the half-edges met from onext(x) on, up to the return to e, at most
\* budget of them
RECURSIVE RingWalk(_, _, _, _)
RingWalk(t, e, x, budget) ==
    IF budget = 0 \/ x = e THEN <<>>
    ELSE <<x>> \o RingWalk(t, e, EdgeAt(t, x).onext, budget - 1)

\* e, onext(e), onext(onext(e)), ... up to the return to e; one entry longer
\* than the arena when the walk does not return
OnextRing(t, e) == <<e>> \o RingWalk(t, e, EdgeAt(t, e).onext, Len(t.edges))

RingSet(t, e) == {OnextRing(t, e)[k] : k \in DOMAIN OnextRing(t, e)}

\* C5: in every state (each action is a completed operation) the onext walk
\* from any non-deactivated e returns to e, meets only non-deactivated
\* half-edges with the origin of e, and meets each such half-edge once
RingClosure ==
    \A t \in Subdivisions : \A e \in ActiveEdges(t) :
        LET ring == OnextRing(t, e)
            members == {ring[k] : k \in DOMAIN ring}
        IN  /\ Len(ring) <= Len(t.edges)
            /\ \A x \in members :
                  /\ ~EdgeAt(t, x).deactivate
                  /\ EdgeAt(t, x).org = EdgeAt(t, e).org
            /\ Cardinality(members) = Len(ring)
            /\ \A x \in ActiveEdges(t) :
                  EdgeAt(t, x).org = EdgeAt(t, e).org => x \in members

\* kill_edge has removed an edge from a subdivision in which some point has
\* at least four half-edges around it
RingClosureWitness ==
    \E t \in Subdivisions :
        /\ \E i \in ArenaIdx(t) : EdgeAt(t, i).deactivate
        /\ \E e \in ActiveEdges(t) : Len(OnextRing(t, e)) >= 4

\* C6: in every reachable state oprev is the inverse of onext on every
\* half-edge of the arena, deactivated ones included
OprevOnextDuality ==
    \A t \in Subdivisions : \A e \in ArenaIdx(t) :
        /\ EdgeAt(t, e).onext \in ArenaIdx(t)
        /\ EdgeAt(t, e).oprev \in ArenaIdx(t)
        /\ EdgeAt(t, EdgeAt(t, e).oprev).onext = e
        /\ EdgeAt(t, EdgeAt(t, e).onext).oprev = e

\* an arena holding a deactivated half-edge, a half-edge added by connect
\* after the merge of the arenas, and a ring of at least three half-edges
OprevOnextDualityWitness ==
    \E t \in Subdivisions :
        /\ \E i \in ArenaIdx(t) : EdgeAt(t, i).deactivate
        /\ Len(t.edges) >= 16
        /\ \E e \in ActiveEdges(t) :
              /\ EdgeAt(t, e).onext # e
              /\ EdgeAt(t, EdgeAt(t, e).onext).onext # e

\* sym(onext(sym(e)))
SymOnextSym(t, e) == EdgeAt(t, EdgeAt(t, EdgeAt(t, e).sym).onext).sym

\* C7 as stated: every non-deactivated half-edge e has
\* oprev(e) = sym(onext(sym(e)))
OprevIsSymOnextSym ==
    \A t \in Subdivisions : \A e \in ActiveEdges(t) :
        EdgeAt(t, e).oprev = SymOnextSym(t, e)

\* C7 as amended: every non-deactivated half-edge e has onext(oprev(e)) = e;
\* sym(onext(sym(e))) is a half-edge that ends at dest(e), and it is oprev(e)
\* exactly when e is alone in the ring of its origin and sym(e) is alone in
\* the ring of its destination
OprevIdentity ==
    \A t \in Subdivisions : \A e \in ActiveEdges(t) :
        /\ EdgeAt(t, EdgeAt(t, e).oprev).onext = e
        /\ EdgeAt(t, SymOnextSym(t, e)).dest = EdgeAt(t, e).dest
        /\ (EdgeAt(t, e).oprev = SymOnextSym(t, e))
              <=> /\ EdgeAt(t, e).onext = e
                  /\ EdgeAt(t, EdgeAt(t, e).sym).onext = EdgeAt(t, e).sym

\* triangulate has returned a subdivision with a half-edge e whose oprev(e)
\* leaves org(e) while sym(onext(sym(e))) is another half-edge
OprevIdentityWitness ==
    /\ Done
    /\ Len(pts_subset) >= 6
    /\ \E e \in ActiveEdges(Returned) :
          /\ EdgeAt(Returned, e).oprev # SymOnextSym(Returned, e)
          /\ EdgeAt(Returned, EdgeAt(Returned, e).oprev).org = EdgeAt(Returned, e).org
          /\ EdgeAt(Returned, SymOnextSym(Returned, e)).org # EdgeAt(Returned, e).org

\* the direction org -> dest of half-edge e
Dir(t, e) ==
    LET o == PointAt(t, EdgeAt(t, e).org)
        d == PointAt(t, EdgeAt(t, e).dest)
    IN  <<d[1] - o[1], d[2] - o[2]>>

Cross(u, v) == u[1] * v[2] - u[2] * v[1]
Dot(u, v) == u[1] * v[1] + u[2] * v[2]

\* with the y axis pointing up, the direction d lies strictly inside the
\* counterclockwise sweep that starts at direction d0 and ends at d1
InsideCcwSweep(d0, d1, d) ==
    IF Cross(d0, d1) > 0 THEN Cross(d0, d) > 0 /\ Cross(d, d1) > 0
    ELSE IF Cross(d0, d1) < 0 THEN ~(Cross(d1, d) >= 0 /\ Cross(d, d0) >= 0)
    ELSE IF Dot(d0, d1) < 0 THEN Cross(d0, d) > 0
    ELSE TRUE

\* onext(e) is the first half-edge of the ring met when turning
\* counterclockwise (y up) from e, for every e: the ring is in
\* counterclockwise order and one trip round it winds once
RingIsCounterclockwise(t) ==
    \A e \in ActiveEdges(t) :
        \A x \in RingSet(t, e) \ {e, EdgeAt(t, e).onext} :
            ~InsideCcwSweep(Dir(t, e), Dir(t, EdgeAt(t, e).onext), Dir(t, x))

\* the same turning clockwise (y up)
RingIsClockwise(t) ==
    \A e \in ActiveEdges(t) :
        \A x \in RingSet(t, e) \ {e, EdgeAt(t, e).onext} :
            ~InsideCcwSweep(Dir(t, EdgeAt(t, e).onext), Dir(t, e), Dir(t, x))

LexSmallest(P, p) == \A k \in DOMAIN P : P[k] = p \/ LexLess(p, P[k])
LexLargest(P, p) == \A k \in DOMAIN P : P[k] = p \/ LexLess(P[k], p)

\* C9: in every subdivision built by line_primitive, triangle_primitive or
\* a pairwise merge, org(inner) is the lexicographically smallest point and
\* org(outer) the lexicographically largest
ExtremeEdges ==
    \A t \in Subdivisions :
        /\ t.inner \in ArenaIdx(t)
        /\ t.outer \in ArenaIdx(t)
        /\ LexSmallest(t.points, PointAt(t, EdgeAt(t, t.inner).org))
        /\ LexLargest(t.points, PointAt(t, EdgeAt(t, t.outer).org))

\* a completed merge in which combine_triangulations moved inner to the new
\* base edge and the zip removed an edge
ExtremeEdgesWitness ==
    \E k \in DOMAIN triangulations :
        LET t == triangulations[k]
        IN  /\ Len(t.points) >= 5
            /\ t.inner >= 6
            /\ \E i \in ArenaIdx(t) : EdgeAt(t, i).deactivate

\* C10: on every sorted list of n >= 2 distinct grid points, collinear and
\* cocircular ones included, the loops of lowest_common_tangent, rcand_func,
\* lcand_func, zip_hulls and recursive_group_merge exit and triangulate
\* returns a single subdivision
Terminates ==
    (Len(pts_subset) >= 2) =>
        <>(Done /\ Len(groups) = 1 /\ Len(groups[1]) = 1)

\* triangulate has returned after two rounds of merges in which the
\* candidate loops removed edges and the tangent loop moved both ends
TerminatesWitness ==
    /\ Done
    /\ Len(pts_subset) >= 7
    /\ Len(groups) = 1 /\ Len(groups[1]) = 1
    /\ Cardinality({i \in ArenaIdx(Returned) : EdgeAt(Returned, i).deactivate}) >= 4

\* C11: triangulate of a list of 0 points or of 1 point does not raise, and
\* the subdivision it returns has no edges
TinyInputReturns ==
    (Len(pts_subset) <= 1) =>
        /\ pc # "raised"
        /\ Done => Returned.edges = <<>>

\* the groups of a split, joined in order
RECURSIVE Flatten(_)
Flatten(gs) == IF gs = <<>> THEN <<>> ELSE Head(gs) \o Flatten(Tail(gs))

GroupSource == lexicographic_sort(Grid)

Groups ==
    {Slice(GroupSource, i, j) :
        i \in 0..Len(GroupSource),
        j \in 0..Len(GroupSource)}

GroupLists ==
    UNION {[1..n -> {g \in Groups : Len(g) <= MaxGroup}] : n \in 0..MaxGroups}

InitPrimitives ==
    /\ pts_subset = <<>>
    /\ split_pts \in GroupLists
    /\ primitives = <<>>
    /\ groups = <<>>
    /\ triangulations = <<>>
    /\ gi = 0
    /\ left_e = None
    /\ right_e = None
    /\ base = None
    /\ rcand = None
    /\ lcand = None
    /\ rcand_valid = FALSE
    /\ lcand_valid = FALSE
    /\ pc = "make_primitives"
    /\ arg = None
    /\ ret = None

\* make_primitives, line 141: return primitives
MakePrimitivesReturn ==
    /\ pc = "make_primitives"
    /\ split_pts = <<>>
    /\ pc' = "returned"
    /\ UNCHANGED <<arg, ret, pts_subset, split_pts, primitives, groups, triangulations,
                   gi, scratch>>

NextPrimitives ==
    \/ MakePrimitive
    \/ MakePrimitivesReturn

SpecPrimitives == InitPrimitives /\ [][NextPrimitives]_vars

\* C13: make_primitives raises, and returns no list of primitives, whenever
\* a group handed to it has size 0 or size >= 4
MakePrimitivesRaises ==
    [][(/\ pc = "make_primitives"
        /\ split_pts # <<>>
        /\ (Len(Head(split_pts)) = 0 \/ Len(Head(split_pts)) >= 4))
       => pc' = "raised"]_vars

\* ---------------------- functions called on their own --------------------
\* the state of triangulate, which a function called on its own leaves
\* untouched
program == <<pts_subset, split_pts, primitives, groups, triangulations, gi,
             left_e, right_e, base, rcand, lcand, rcand_valid, lcand_valid>>

Idle ==
    /\ pts_subset = <<>>
    /\ split_pts = <<>>
    /\ primitives = <<>>
    /\ groups = <<>>
    /\ triangulations = <<>>
    /\ gi = 0
    /\ left_e = None
    /\ right_e = None
    /\ base = None
    /\ rcand = None
    /\ lcand = None
    /\ rcand_valid = FALSE
    /\ lcand_valid = FALSE

\* in_circle(a, b, c, d) on four points of the grid
InitInCircle ==
    /\ Idle
    /\ pc = "in_circle"
    /\ arg \in Grid \X Grid \X Grid \X Grid
    /\ ret = None

InCircleCall ==
    /\ pc = "in_circle"
    /\ ret' = in_circle(arg[1], arg[2], arg[3], arg[4])
    /\ pc' = "returned"
    /\ UNCHANGED <<arg, program>>

SpecInCircle == InitInCircle /\ [][InCircleCall]_vars

RingMaps(n) ==
    {f \in [0..(n - 1) -> 0..(n - 1)] :
        \A i, j \in 0..(n - 1) : f[i] = f[j] => i = j}

Inverse(f) == [j \in DOMAIN f |-> CHOOSE i \in DOMAIN f : f[i] = j]

\* the arena of n half-edges (0, 1), (2, 3), ... with the rings of f
RingArena(f) ==
    LET n == Cardinality(DOMAIN f)
        g == Inverse(f)
        mate(i) == IF i % 2 = 0 THEN i + 1 ELSE i - 1
    IN  [TriangulationEdges(<<>>) EXCEPT
            !.edges = [k \in 1..n |->
                         Edge(k - 1, k - 1, mate(k - 1), mate(k - 1),
                              f[k - 1], g[k - 1])],
            !.num_edges = n]

RingArenas ==
    UNION {{RingArena(f) : f \in RingMaps(2 * k)} : k \in 1..MaxPairs}

InitSplice ==
    /\ Idle
    /\ pc = "splice"
    /\ \E t \in RingArenas :
          /\ arg \in {t} \X ArenaIdx(t) \X ArenaIdx(t)
          /\ ret = t

\* edges.splice(a, b), the first and the second time
SpliceCall ==
    /\ pc \in {"splice", "splice_again"}
    /\ ret' = Call3(splice, ret, arg[2], arg[3])
    /\ pc' = IF pc = "splice" THEN "splice_again" ELSE "returned"
    /\ UNCHANGED <<arg, program>>

SpecSplice == InitSplice /\ [][SpliceCall]_vars

\* C15: on an arena that satisfies the onext/oprev duality, splice(a, b)
\* performed twice (a = b included) restores the onext and the oprev of
\* every half-edge
SpliceInvolution ==
    (pc = "returned" /\ Len(arg) = 3) =>
        \A i \in ArenaIdx(ret) :
            /\ EdgeAt(ret, i).onext = EdgeAt(arg[1], i).onext
            /\ EdgeAt(ret, i).oprev = EdgeAt(arg[1], i).oprev

\* splice(a, b) has run twice on two different half-edges of one ring of
\* an arena of four half-edges, b being the onext of a
SpliceInvolutionWitness ==
    /\ pc = "returned"
    /\ Len(arg) = 3
    /\ Len(arg[1].edges) = 4
    /\ arg[2] # arg[3]
    /\ EdgeAt(arg[1], arg[2]).onext = arg[3]
    /\ EdgeAt(arg[1], arg[3]).onext # arg[2]

\* kill_edge(e) and then connect(a, b) called on the subdivision that
\* triangulate returned, with a = sym(onext(e)) and b = oprev(sym(e)) read
\* before the kill.  arg keeps the subdivision as it was before the kill.
KillEdgeCall ==
    /\ pc = "done"
    /\ \E e \in ActiveEdges(Returned) :
          LET t == Returned
              sym_e == EdgeAt(t, e).sym
              a == EdgeAt(t, EdgeAt(t, e).onext).sym
              b == EdgeAt(t, sym_e).oprev
          IN  /\ EdgeAt(t, e).onext # e
              /\ EdgeAt(t, sym_e).onext # sym_e
              /\ arg' = <<t, e, a, b>>
              /\ groups' = [groups EXCEPT ![1][1] = Call2(kill_edge, t, e)]
    /\ pc' = "connect_call"
    /\ UNCHANGED <<ret, pts_subset, split_pts, primitives, triangulations, gi,
                   scratch>>

ConnectCall ==
    /\ pc = "connect_call"
    /\ groups' = [groups EXCEPT ![1][1] =
                    Call3(connect, Returned, arg[3], arg[4])]
    /\ ret' = connect_index(Returned)
    /\ pc' = "returned"
    /\ UNCHANGED <<arg, pts_subset, split_pts, primitives, triangulations, gi,
                   scratch>>

NextKillConnect ==
    \/ Next
    \/ KillEdgeCall
    \/ ConnectCall

SpecKillConnect == Init /\ [][NextKillConnect]_vars

\* half-edge i of the subdivision before the kill, as it is called after
\* the connect: the new edge stands for e and its sym for sym(e)
Renamed(i) ==
    IF i = arg[2] THEN ret
    ELSE IF i = EdgeAt(arg[1], arg[2]).sym THEN EdgeAt(Returned, ret).sym
    ELSE i

\* C16: for an active edge e whose origin ring and destination ring hold
\* another active half-edge, kill_edge(e); connect(sym(onext(e)),
\* oprev(sym(e))) creates an edge with the org and dest of e that stands where
\* e stood in both rings, and every other active half-edge keeps its onext
\* and oprev (the new edge in place of e)
KillConnectRestores ==
    (pc = "returned") =>
        LET before == arg[1]
            after == Returned
            e == arg[2]
        IN  /\ EdgeAt(after, ret).org = EdgeAt(before, e).org
            /\ EdgeAt(after, ret).dest = EdgeAt(before, e).dest
            /\ ~EdgeAt(after, ret).deactivate
            /\ ~EdgeAt(after, EdgeAt(after, ret).sym).deactivate
            /\ ActiveEdges(after) = {Renamed(i) : i \in ActiveEdges(before)}
            /\ \A i \in ActiveEdges(before) :
                  /\ EdgeAt(after, Renamed(i)).onext
                        = Renamed(EdgeAt(before, i).onext)
                  /\ EdgeAt(after, Renamed(i)).oprev
                        = Renamed(EdgeAt(before, i).oprev)
                  /\ EdgeAt(after, Renamed(i)).org = EdgeAt(before, i).org
                  /\ EdgeAt(after, Renamed(i)).dest = EdgeAt(before, i).dest

\* an interior edge of a triangulation of 7 points, with at least four
\* half-edges around each end, has been killed and connected again
KillConnectRestoresWitness ==
    /\ pc = "returned"
    /\ Len(pts_subset) = 7
    /\ Cardinality(RingSet(arg[1], arg[2])) >= 4
    /\ Cardinality(RingSet(arg[1], EdgeAt(arg[1], arg[2]).sym)) >= 4
    /\ \E i \in ArenaIdx(arg[1]) : EdgeAt(arg[1], i).deactivate

\* subdivision t of one state is subdivision t2 of the next, its half-edge
\* i being half-edge i + k of t2 (k > 0 when t was the right operand of a
\* merge): the same end points, still deactivated if it was, and the arena
\* and num_edges no smaller
LivesOnAs(t, t2, k) ==
    /\ Len(t2.edges) >= Len(t.edges) + k
    /\ t2.num_edges >= t.num_edges + k
    /\ \A i \in ArenaIdx(t) :
          LET e == EdgeAt(t, i)
              e2 == EdgeAt(t2, i + k)
          IN  /\ t2.points[e2.org + 1] = t.points[e.org + 1]
              /\ t2.points[e2.dest + 1] = t.points[e.dest + 1]
              /\ e.deactivate => e2.deactivate

DeactivatedTogether(t) ==
    \A i \in ArenaIdx(t) :
        EdgeAt(t, i).deactivate = EdgeAt(t, EdgeAt(t, i).sym).deactivate

\* C17: along every execution of triangulate a deactivated half-edge stays
\* deactivated in every later state, a half-edge and its sym are deactivated
\* together, and the arena length and num_edges of a subdivision never
\* decrease from one step to the next
EdgeLifecycle ==
    [][/\ \A t \in Subdivisions :
             \E t2 \in Subdivisions' :
                \E k \in 0..Len(t2.edges) : LivesOnAs(t, t2, k)
       /\ \A t2 \in Subdivisions' : DeactivatedTogether(t2)]_vars

\* triangulate has returned a subdivision of 10 points in which an edge
\* between points of the right operand of the last merge is deactivated and
\* edges created after it are active
EdgeLifecycleWitness ==
    /\ Done
    /\ Len(pts_subset) = 10
    /\ \E i, j \in ArenaIdx(Returned) :
          /\ EdgeAt(Returned, i).deactivate
          /\ EdgeAt(Returned, i).org >= 4
          /\ EdgeAt(Returned, i).dest >= 4
          /\ i < j
          /\ ~EdgeAt(Returned, j).deactivate

\* ------------------------- schedules of merges ---------------------------
\* make_primitives as a function of the groups of groups_of_3 (sizes 2, 3)
RECURSIVE make_primitives(_)
make_primitives(split) ==
    IF split = <<>> THEN <<>>
    ELSE IF Len(Head(split)) = 2
    THEN <<line_primitive(Head(split))>> \o make_primitives(Tail(split))
    ELSE IF Len(Head(split)) = 3
    THEN <<triangle_primitive(Head(split))>> \o make_primitives(Tail(split))
    ELSE make_primitives(Tail(split))

\* 11 points in general position: no three collinear, no four cocircular
SchedulePool ==
    {<<0, 4>>, <<1, 1>>, <<1, 2>>, <<2, 2>>, <<3, 5>>, <<3, 6>>, <<4, 6>>,
     <<5, 0>>, <<5, 1>>, <<6, 3>>, <<6, 5>>}

ScheduleInputs ==
    {lexicographic_sort(S) :
        S \in {T \in SUBSET SchedulePool :
                  Cardinality(T) >= Cardinality(SchedulePool) - MaxLeftOut}}

\* the driver holds in arg the adjacent subdivisions still to be merged,
\* first the primitives, and in ret the place of the pair it is merging
InitSchedule ==
    /\ pts_subset \in ScheduleInputs
    /\ split_pts = <<>>
    /\ primitives = <<>>
    /\ groups = <<>>
    /\ triangulations = <<>>
    /\ gi = 0
    /\ left_e = None
    /\ right_e = None
    /\ base = None
    /\ rcand = None
    /\ lcand = None
    /\ rcand_valid = FALSE
    /\ lcand_valid = FALSE
    /\ pc = "schedule"
    /\ arg = make_primitives(groups_of_3(pts_subset))
    /\ ret = None

\* the driver hands two adjacent subdivisions to recursive_group_merge
ScheduleMerge ==
    /\ pc = "schedule"
    /\ \E k \in 1..(Len(arg) - 1) :
          /\ groups' = << <<arg[k], arg[k + 1]>> >>
          /\ ret' = k
    /\ pc' = "recursive_group_merge"
    /\ UNCHANGED <<arg, pts_subset, split_pts, primitives, triangulations, gi,
                   scratch>>

\* recursive_group_merge has returned: the merged subdivision takes the
\* place of the pair
ScheduleCollect ==
    /\ pc = "done"
    /\ ret # None
    /\ arg' = SubSeq(arg, 1, ret - 1) \o <<groups[1][1]>>
              \o SubSeq(arg, ret + 2, Len(arg))
    /\ groups' = <<>>
    /\ ret' = None
    /\ pc' = IF Len(arg) = 2 THEN "returned" ELSE "schedule"
    /\ UNCHANGED <<pts_subset, split_pts, primitives, triangulations, gi,
                   scratch>>

NextSchedule ==
    \/ ScheduleMerge
    \/ RecursiveGroupMerge
    \/ MergeTriangulations
    \/ LowestCommonTangent
    \/ CombineTriangulations
    \/ ZipHulls
    \/ RcandFunc
    \/ LcandFunc
    \/ ZipConnect
    \/ ScheduleCollect

SpecSchedule == InitSchedule /\ [][NextSchedule]_vars

\* the non-deactivated edges of t as unordered pairs of points
PointPairs(t) ==
    {{t.points[EdgeAt(t, i).org + 1], t.points[EdgeAt(t, i).dest + 1]} :
        i \in ActiveEdges(t)}

\* the edges of the Delaunay triangulation of the points of P, which is
\* unique when P is in general position: a, b are joined iff some third
\* point c makes a triangle whose circumcircle holds no point of P
DelaunayEdges(P) ==
    LET S == {P[i] : i \in DOMAIN P}
    IN  {{a, b} : <<a, b>> \in
           {ab \in S \X S :
              /\ ab[1] # ab[2]
              /\ \E c \in S \ {ab[1], ab[2]} :
                    /\ Orient(ab[1], ab[2], c) # 0
                    /\ \A d \in S \ {ab[1], ab[2], c} :
                          ~StrictlyInCircumcircle(ab[1], ab[2], c, d)}}

\* C18: on sorted points in general position every schedule that merges
\* adjacent subdivisions until one is left (balanced, left to right, right to
\* left, slab by slab) ends with the same set of non-deactivated edges as
\* pairs of points: the edges of the Delaunay triangulation of the points
ScheduleIndependence ==
    (pc = "returned") => PointPairs(arg[1]) = DelaunayEdges(pts_subset)

\* a schedule other than the balanced one has ended: its last merge joined
\* the first primitive, a line, with the merge of all the others, so every
\* edge that touches the first two points other than the line between them
\* comes after every edge among the other points
ScheduleIndependenceWitness ==
    /\ pc = "returned"
    /\ Len(pts_subset) = 11
    /\ LET t == arg[1]
           low(i) == EdgeAt(t, i).org <= 1 \/ EdgeAt(t, i).dest <= 1
       IN  /\ \E i \in ArenaIdx(t) : EdgeAt(t, i).deactivate
           /\ \A i, j \in ArenaIdx(t) \ {0, 1} : (low(i) /\ ~low(j)) => j < i

TangentStep(first, second) ==
    /\ first =>
          /\ left_e' = EdgeAt(h_left, EdgeAt(h_left, left_e).sym).onext
          /\ right_e' = right_e
          /\ pc' = "lowest_common_tangent"
    /\ (~first /\ second) =>
          /\ right_e' = EdgeAt(h_right, EdgeAt(h_right, right_e).sym).oprev
          /\ left_e' = left_e
          /\ pc' = "lowest_common_tangent"
    /\ (~first /\ ~second) =>
          /\ left_e' = left_e
          /\ right_e' = right_e
          /\ pc' = "combine_triangulations"

\* the loop is entered with le = L.outer and re = R.inner
TangentStart ==
    (pc # "lowest_common_tangent" /\ pc' = "lowest_common_tangent") =>
        /\ left_e' = groups'[gi'][1].outer
        /\ right_e' = groups'[gi'][2].inner

OrgOf(t, e) == t.points[EdgeAt(t, e).org + 1]
DestOf(t, e) == t.points[EdgeAt(t, e).dest + 1]

\* C20 as claimed: starting from le = L.outer and re = R.inner, an iteration
\* advances le := onext(sym(le)) if on_right(org(le), dest(le), dest(re)),
\* else advances re := oprev(sym(re)) if org(le) is on the left of
\* org(re)->dest(re), else returns (le, re)
TangentStepTestsDest ==
    [][/\ TangentStart
       /\ (pc = "lowest_common_tangent") =>
             TangentStep(on_right(OrgOf(h_left, left_e), DestOf(h_left, left_e),
                                  DestOf(h_right, right_e)),
                         on_left(OrgOf(h_right, right_e),
                                 DestOf(h_right, right_e),
                                 OrgOf(h_left, left_e)))]_vars

\* C20 as amended: the first test is on org(re), not dest(re): an iteration
\* advances le := onext(sym(le)) if on_right(org(le), dest(le), org(re)),
\* else advances re := oprev(sym(re)) if on_left(org(re), dest(re), org(le)),
\* else returns (le, re)
TangentStepTestsOrg ==
    [][/\ TangentStart
       /\ (pc = "lowest_common_tangent") =>
             TangentStep(on_right(OrgOf(h_left, left_e), DestOf(h_left, left_e),
                                  OrgOf(h_right, right_e)),
                         on_left(OrgOf(h_right, right_e),
                                 DestOf(h_right, right_e),
                                 OrgOf(h_left, left_e)))]_vars

\* the loop has returned (le, re) with dest(re) on the right of
\* org(le)->dest(le) and org(re) not on its right
TangentStepTestsOrgWitness ==
    /\ pc = "combine_triangulations"
    /\ on_right(OrgOf(h_left, left_e), DestOf(h_left, left_e),
                DestOf(h_right, right_e))
    /\ ~on_right(OrgOf(h_left, left_e), DestOf(h_left, left_e),
                 OrgOf(h_right, right_e))

\* ----------------------- extreme edges and hull chains -------------------
\* the subdivisions that are complete: the primitives, the results of
\* completed merges, and the groups between two rounds of merges
Completed ==
    {primitives[i] : i \in DOMAIN primitives}
    \cup {triangulations[i] : i \in DOMAIN triangulations}
    \cup (IF pc \in {"recursive_group_merge", "done"}
          THEN UNION {{groups[i][j] : j \in DOMAIN groups[i]} : i \in DOMAIN groups}
          ELSE {})

\* with the y axis pointing up, no point of t is strictly on the right of
\* half-edge e / strictly on its left.  For a half-edge that leaves the
\* leftmost point, on the right is below; for one that leaves the rightmost
\* point, on the right is above.
NoneOnRightOf(t, e) ==
    \A k \in DOMAIN t.points : Orient(OrgOf(t, e), DestOf(t, e), t.points[k]) >= 0

NoneOnLeftOf(t, e) ==
    \A k \in DOMAIN t.points : Orient(OrgOf(t, e), DestOf(t, e), t.points[k]) <= 0

\* e is an active half-edge of t along an edge of the convex hull
OnHull(t, e) ==
    /\ e \in ActiveEdges(t)
    /\ HullEdge(t.points, OrgOf(t, e), DestOf(t, e))

\* C21 as claimed: in every primitive and every completed merge of points
\* that are not all collinear, inner is a hull edge leaving the smallest
\* point with no point strictly below its line (lower chain), and outer is a
\* hull edge leaving the largest point with no point strictly above its
\* line (upper chain)
ExtremeEdgesLowerAndUpper ==
    \A t \in Completed :
        ~AllCollinear(t.points) =>
            /\ OnHull(t, t.inner)
            /\ LexSmallest(t.points, OrgOf(t, t.inner))
            /\ NoneOnRightOf(t, t.inner)
            /\ OnHull(t, t.outer)
            /\ LexLargest(t.points, OrgOf(t, t.outer))
            /\ NoneOnRightOf(t, t.outer)

\* C21 as amended: inner and outer are both on the lower chain: inner is a
\* hull edge leaving the smallest point, outer a hull edge leaving the
\* largest point, and no point lies strictly below the line through either
ExtremeEdgesOnLowerChain ==
    \A t \in Completed :
        ~AllCollinear(t.points) =>
            /\ OnHull(t, t.inner)
            /\ LexSmallest(t.points, OrgOf(t, t.inner))
            /\ NoneOnRightOf(t, t.inner)
            /\ OnHull(t, t.outer)
            /\ LexLargest(t.points, OrgOf(t, t.outer))
            /\ NoneOnLeftOf(t, t.outer)

\* a completed merge of at least 5 points in which combine_triangulations
\* moved outer to the sym of the base edge, with a point strictly above the
\* line through outer and one strictly above the line through inner
ExtremeEdgesOnLowerChainWitness ==
    \E k \in DOMAIN triangulations :
        LET t == triangulations[k]
        IN  /\ Len(t.points) >= 5
            /\ t.outer >= 6
            /\ \E i \in ArenaIdx(t) : EdgeAt(t, i).deactivate
            /\ \E j \in DOMAIN t.points :
                  Orient(OrgOf(t, t.outer), DestOf(t, t.outer), t.points[j]) < 0
            /\ \E j \in DOMAIN t.points :
                  Orient(OrgOf(t, t.inner), DestOf(t, t.inner), t.points[j]) > 0

\* ------------------------------ zip selection ----------------------------
\* on_right(b1, b2, dest(e)) for the base edge of the zip, computed from the
\* subdivision as it is now
ValidAgainstBase(e) ==
    Orient(OrgOf(triang, base), DestOf(triang, base), DestOf(triang, e)) > 0

\* the lifted determinant test on dest(rcand), org(rcand), org(lcand),
\* dest(lcand) that makes the left candidate win
LeftIsStrong ==
    in_circle(DestOf(triang, rcand), OrgOf(triang, rcand),
              OrgOf(triang, lcand), DestOf(triang, lcand))

\* the half-edge record that connect(a, b) appends at index n of subdivision
\* t2, seen in t2: it runs from dest(a) to org(b) of subdivision t
NewEdgeJoins(t, t2, a, b) ==
    /\ Len(t2.edges) = Len(t.edges) + 2
    /\ EdgeAt(t2, Len(t.edges)).org = EdgeAt(t, a).dest
    /\ EdgeAt(t2, Len(t.edges)).dest = EdgeAt(t, b).org

\* C22: an iteration of zip_hulls stops the loop exactly when neither
\* dest(rcand) nor dest(lcand) is on_right of the base; otherwise the new
\* base is connect(lcand, sym(base)) exactly when rcand is not valid, or
\* lcand is valid and in_circle(dest(rcand), org(rcand), org(lcand),
\* dest(lcand)), and connect(sym(base), sym(rcand)) in every other case
ZipSelectionRule ==
    [][/\ (pc = "zip_hulls") =>
             LET rc == EdgeAt(triang, EdgeAt(triang, base).sym).onext
                 lc == EdgeAt(triang, base).oprev
             IN  (pc' = "merge_triangulations")
                     <=> (~ValidAgainstBase(rc) /\ ~ValidAgainstBase(lc))
       /\ (pc = "connect") =>
             LET t == triang
                 t2 == groups'[gi][1]
                 sym_base == EdgeAt(t, base).sym
                 left == \/ ~ValidAgainstBase(rcand)
                         \/ ValidAgainstBase(lcand) /\ LeftIsStrong
             IN  /\ base' = Len(t.edges)
                 /\ left => NewEdgeJoins(t, t2, lcand, sym_base)
                 /\ ~left => NewEdgeJoins(t, t2, sym_base, EdgeAt(t, rcand).sym)]_vars

\* both candidates are valid, each loop has removed an edge or left its
\* candidate, and the left candidate is about to win by the in_circle test
ZipSelectionRuleWitness ==
    /\ pc = "connect"
    /\ ValidAgainstBase(rcand)
    /\ ValidAgainstBase(lcand)
    /\ LeftIsStrong
    /\ \E i \in ArenaIdx(triang) : EdgeAt(triang, i).deactivate
    /\ Len(triang.points) >= 6

\* C23: groups_of_3 on n >= 2 points emits groups of 3 from the front and
\* puts the groups of 2 at the end: for n mod 3 = 2 the last group is the
\* final pair, for n mod 3 = 1 the last four points are two pairs, and every
\* earlier group has 3 points
SplitterPairsLast ==
    [][(Split /\ Len(pts_subset) >= 2) =>
          LET n == Len(pts_subset)
              g == split_pts'
              pairs == IF n % 3 = 0 THEN 0 ELSE IF n % 3 = 2 THEN 1 ELSE 2
          IN  /\ Flatten(g) = pts_subset
              /\ Len(g) >= pairs
              /\ \A k \in DOMAIN g :
                    Len(g[k]) = IF k > Len(g) - pairs THEN 2 ELSE 3]_vars

\* ---------------- combine_triangulations (the method) on its own ----------
\* hull_left.combine_triangulations(hull_right) as combine_triangulations
\* (the function) calls it, on the two subdivisions of a merge.  arg keeps
\* the two subdivisions as they were before the call.
CombineMethodCall ==
    /\ pc = "combine_triangulations"
    /\ arg' = <<h_left, h_right>>
    /\ ret' = hull_combine_triangulations(h_left, h_right)
    /\ pc' = "combined"
    /\ UNCHANGED program

NextCombineMethod ==
    \/ Next
    \/ CombineMethodCall

SpecCombineMethod == Init /\ [][NextCombineMethod]_vars

\* C24: L.combine_triangulations(R) leaves the records of L as they were,
\* appends the records of R in order with index, sym, onext, oprev raised by
\* EL = L.num_edges and org, dest raised by PL = len(L.points), deactivate
\* as it was; the points are L.points followed by R.points and num_edges is
\* EL + R.num_edges; the record at position i has index i and every org and
\* dest is the index of a point
MergeRenumbering ==
    (pc = "combined") =>
        LET L == arg[1]
            R == arg[2]
            M == ret
            EL == L.num_edges
            PL == Len(L.points)
        IN  /\ Len(M.edges) = Len(L.edges) + Len(R.edges)
            /\ \A i \in ArenaIdx(L) : EdgeAt(M, i) = EdgeAt(L, i)
            /\ \A j \in ArenaIdx(R) :
                  LET m == EdgeAt(M, Len(L.edges) + j)
                      r == EdgeAt(R, j)
                  IN  /\ m.index = r.index + EL
                      /\ m.sym = r.sym + EL
                      /\ m.onext = r.onext + EL
                      /\ m.oprev = r.oprev + EL
                      /\ m.org = r.org + PL
                      /\ m.dest = r.dest + PL
                      /\ m.deactivate = r.deactivate
            /\ M.points = L.points \o R.points
            /\ M.num_edges = EL + R.num_edges
            /\ \A i \in ArenaIdx(M) :
                  /\ EdgeAt(M, i).index = i
                  /\ EdgeAt(M, i).org \in PointIdx(M)
                  /\ EdgeAt(M, i).dest \in PointIdx(M)

\* the method has combined a left subdivision of at least 4 points with a
\* right subdivision that is itself the result of a merge and holds a
\* deactivated edge
MergeRenumberingWitness ==
    /\ pc = "combined"
    /\ Len(arg[1].points) >= 4
    /\ Len(arg[2].points) >= 4
    /\ \E j \in ArenaIdx(arg[2]) : EdgeAt(arg[2], j).deactivate

\* --------------------------- connect on its own --------------------------
\* connect on its own: largest number of input points of the subdivision
MaxConnectPts == 5

\* edges.connect(a, b) called on the subdivision that triangulate returned,
\* for any two half-edges a, b of its arena.  arg keeps the subdivision
\* before the call and a, b; ret is the subdivision after the call and the
\* index returned.
ConnectAnyCall ==
    /\ pc = "done"
    /\ Len(pts_subset) <= MaxConnectPts
    /\ \E a, b \in ArenaIdx(Returned) :
          /\ arg' = <<Returned, a, b>>
          /\ ret' = <<Call3(connect, Returned, a, b), connect_index(Returned)>>
    /\ pc' = "connected"
    /\ UNCHANGED program

NextConnect ==
    \/ Next
    \/ ConnectAnyCall

SpecConnect == Init /\ [][NextConnect]_vars

\* C25: connect(a, b) on an arena of length n appends two half-edges at n
\* and n + 1 and returns n; the new edge e runs from dest(a) to org(b), with
\* onext(e) = sym(a) and onext(b) = sym(e) afterwards; org, dest, sym and
\* deactivate of the half-edges that were there are unchanged
ConnectStitches ==
    (pc = "connected") =>
        LET t == arg[1]
            a == arg[2]
            b == arg[3]
            t2 == ret[1]
            e == ret[2]
            n == Len(t.edges)
        IN  /\ Len(t2.edges) = n + 2
            /\ e = n
            /\ EdgeAt(t2, e).index = n
            /\ EdgeAt(t2, e).sym = n + 1
            /\ EdgeAt(t2, n + 1).index = n + 1
            /\ EdgeAt(t2, n + 1).sym = n
            /\ EdgeAt(t2, e).org = EdgeAt(t, a).dest
            /\ EdgeAt(t2, e).dest = EdgeAt(t, b).org
            /\ EdgeAt(t2, n + 1).org = EdgeAt(t, b).org
            /\ EdgeAt(t2, n + 1).dest = EdgeAt(t, a).dest
            /\ EdgeAt(t2, e).onext = EdgeAt(t, a).sym
            /\ EdgeAt(t2, b).onext = EdgeAt(t2, e).sym
            /\ \A i \in ArenaIdx(t) :
                  /\ EdgeAt(t2, i).index = EdgeAt(t, i).index
                  /\ EdgeAt(t2, i).org = EdgeAt(t, i).org
                  /\ EdgeAt(t2, i).dest = EdgeAt(t, i).dest
                  /\ EdgeAt(t2, i).sym = EdgeAt(t, i).sym
                  /\ EdgeAt(t2, i).deactivate = EdgeAt(t, i).deactivate

\* connect has joined two active half-edges, with at least three half-edges
\* around dest(a) and around org(b), in a subdivision with a deactivated edge
ConnectStitchesWitness ==
    /\ pc = "connected"
    /\ arg[2] # arg[3]
    /\ arg[2] \in ActiveEdges(arg[1])
    /\ arg[3] \in ActiveEdges(arg[1])
    /\ EdgeAt(arg[1], arg[2]).dest # EdgeAt(arg[1], arg[3]).org
    /\ Cardinality(RingSet(arg[1], EdgeAt(arg[1], arg[2]).sym)) >= 3
    /\ Cardinality(RingSet(arg[1], arg[3])) >= 3
    /\ \E i \in ArenaIdx(arg[1]) : EdgeAt(arg[1], i).deactivate

\* ------------------------------ kill_edge --------------------------------
\* half-edge x of subdivision t, or the next one in its ring that is
\* neither e nor sym(e)
SkipKilled(t, e, x) ==
    LET dead == {e, EdgeAt(t, e).sym}
        y == IF x \in dead THEN EdgeAt(t, x).onext ELSE x
    IN  IF y \in dead THEN EdgeAt(t, y).onext ELSE y

\* subdivision t2 is subdivision t with edge e detached: e and sym(e) are
\* deactivated, no active half-edge points to them, every active half-edge
\* is followed in its ring by the half-edge that followed it in t once e
\* and sym(e) are skipped, and oprev is the inverse of onext
Detached(t, t2, e) ==
    LET sym_e == EdgeAt(t, e).sym
    IN  /\ Len(t2.edges) = Len(t.edges)
        /\ EdgeAt(t2, e).deactivate
        /\ EdgeAt(t2, sym_e).deactivate
        /\ ActiveEdges(t2) = ActiveEdges(t) \ {e, sym_e}
        /\ \A i \in ActiveEdges(t2) :
              /\ EdgeAt(t2, i).onext \notin {e, sym_e}
              /\ EdgeAt(t2, i).oprev \notin {e, sym_e}
              /\ EdgeAt(t2, i).onext = SkipKilled(t, e, EdgeAt(t, i).onext)
              /\ EdgeAt(t2, EdgeAt(t2, i).onext).oprev = i
              /\ EdgeAt(t2, i).org = EdgeAt(t, i).org
              /\ EdgeAt(t2, i).dest = EdgeAt(t, i).dest
              /\ EdgeAt(t2, i).sym = EdgeAt(t, i).sym

\* the half-edges the traversals of a merge hold are not deactivated: the
\* tangent edges, the base, the candidates and the half-edges the candidate
\* loops look at next
NoDeactivatedRead ==
    /\ (pc \in {"lowest_common_tangent", "combine_triangulations"}) =>
          /\ left_e \in ActiveEdges(h_left)
          /\ right_e \in ActiveEdges(h_right)
    /\ (pc \in {"zip_hulls", "rcand_func", "lcand_func", "connect"}) =>
          base \in ActiveEdges(triang)
    /\ (pc \in {"rcand_func", "lcand_func", "connect"}) =>
          /\ rcand \in ActiveEdges(triang)
          /\ lcand \in ActiveEdges(triang)
    /\ (pc = "rcand_func") => EdgeAt(triang, rcand).onext \in ActiveEdges(triang)
    /\ (pc = "lcand_func") => EdgeAt(triang, lcand).oprev \in ActiveEdges(triang)

\* C26: kill_edge(e) on an active edge deactivates e and sym(e), leaves no
\* active half-edge whose onext or oprev is e or sym(e), and keeps the
\* cyclic order of the other half-edges around org(e) and dest(e); no
\* traversal of rcand_func, lcand_func, zip_hulls or lowest_common_tangent
\* holds a deactivated half-edge as candidate, base or tangent edge
KillEdgeDetaches ==
    [][/\ (pc = "rcand_func" /\ rcand' # rcand) =>
             Detached(triang, groups'[gi][1], rcand)
       /\ (pc = "lcand_func" /\ lcand' # lcand) =>
             Detached(triang, groups'[gi][1], lcand)
       /\ (pc = "done" /\ pc' = "connect_call") =>
             Detached(Returned, groups'[1][1], arg'[2])
       /\ NoDeactivatedRead']_vars

\* rcand_func is at work in a subdivision of at least 6 points in which an
\* edge that left the origin of its candidate has been removed; at least
\* three half-edges are still around that origin
KillEdgeDetachesWitness ==
    /\ pc = "rcand_func"
    /\ Len(triang.points) >= 6
    /\ \E e \in ArenaIdx(triang) :
          /\ EdgeAt(triang, e).deactivate
          /\ EdgeAt(triang, e).onext = e
          /\ EdgeAt(triang, e).org = EdgeAt(triang, rcand).org
          /\ Cardinality(RingSet(triang, rcand)) >= 3

\* C27: for a # b in an arena with the onext/oprev duality, splice(a, b)
\* merges the onext orbits of a and b into one orbit holding exactly the
\* members of both when they were distinct, and splits their common orbit
\* into two orbits, one with a and one with b, when they were the same; the
\* onext and oprev of half-edges outside those orbits are unchanged
SpliceOrbits ==
    (pc = "splice_again" /\ arg[2] # arg[3]) =>
        LET t == arg[1]
            a == arg[2]
            b == arg[3]
            t2 == ret
            A == RingSet(t, a)
            B == RingSet(t, b)
        IN  /\ (A # B) =>
                  /\ RingSet(t2, a) = A \cup B
                  /\ RingSet(t2, b) = A \cup B
                  /\ Len(OnextRing(t2, a)) = Cardinality(A) + Cardinality(B)
            /\ (A = B) =>
                  /\ RingSet(t2, a) \cup RingSet(t2, b) = A
                  /\ RingSet(t2, a) \cap RingSet(t2, b) = {}
                  /\ Len(OnextRing(t2, a)) + Len(OnextRing(t2, b)) = Cardinality(A)
            /\ \A i \in ArenaIdx(t) \ (A \cup B) :
                  /\ EdgeAt(t2, i).onext = EdgeAt(t, i).onext
                  /\ EdgeAt(t2, i).oprev = EdgeAt(t, i).oprev

\* splice has split an orbit of four half-edges into two orbits of two
SpliceOrbitsWitness ==
    /\ pc = "splice_again"
    /\ Cardinality(RingSet(arg[1], arg[2])) = 4
    /\ arg[3] \in RingSet(arg[1], arg[2])
    /\ Cardinality(RingSet(ret, arg[2])) = 2
    /\ Cardinality(RingSet(ret, arg[3])) = 2
    /\ arg[3] \notin RingSet(ret, arg[2])

\* ------------------------------ primitives -------------------------------
\* half-edge i of t runs from point o to point d and its sym is s
Runs(t, i, o, d, s) ==
    /\ EdgeAt(t, i).index = i
    /\ EdgeAt(t, i).org = o
    /\ EdgeAt(t, i).dest = d
    /\ EdgeAt(t, i).sym = s
    /\ ~EdgeAt(t, i).deactivate

\* C28: triangle_primitive on sorted distinct p0, p1, p2 builds edge (p0,p1)
\* and edge (p1,p2), spliced at p1; for on_right(p0,p1,p2) it adds the
\* closing edge and inner = edge(p0,p1), outer = sym(edge(p1,p2)); for
\* on_left it adds the closing edge c and inner = sym(c), outer = c; for
\* collinear points it adds none (4 half-edges) and inner = edge(p0,p1),
\* outer = sym(edge(p1,p2)).  line_primitive builds one edge, inner the
\* half-edge from p0 and outer its sym
PrimitiveShapes ==
    [][(pc = "make_primitives" /\ Len(primitives') > Len(primitives)) =>
          LET g == Head(split_pts)
              t == primitives'[Len(primitives')]
              turn == IF Len(g) = 3 THEN Orient(g[1], g[2], g[3]) ELSE 0
          IN  /\ t.points = g
              /\ t.num_edges = Len(t.edges)
              /\ Runs(t, 0, 0, 1, 1)
              /\ Runs(t, 1, 1, 0, 0)
              /\ (Len(g) = 2) =>
                    /\ Len(t.edges) = 2
                    /\ t.inner = 0
                    /\ t.outer = 1
              /\ (Len(g) = 3) =>
                    /\ Runs(t, 2, 1, 2, 3)
                    /\ Runs(t, 3, 2, 1, 2)
                    /\ EdgeAt(t, 1).onext = 2
                    /\ EdgeAt(t, 2).onext = 1
                    /\ (turn # 0) =>
                          /\ Len(t.edges) = 6
                          /\ Runs(t, 4, 2, 0, 5)
                          /\ Runs(t, 5, 0, 2, 4)
                    /\ (turn > 0) => (t.inner = 0 /\ t.outer = 3)
                    /\ (turn < 0) => (t.inner = 5 /\ t.outer = 4)
                    /\ (turn = 0) =>
                          /\ Len(t.edges) = 4
                          /\ t.inner = 0
                          /\ t.outer = 3]_vars

\* make_primitives has built a line and then a triangle from points that
\* turn clockwise, closed by the edge c = p2 -> p0
PrimitiveShapesWitness ==
    /\ pc = "make_primitives"
    /\ \E i, j \in DOMAIN primitives :
          /\ Len(primitives[i].points) = 2
          /\ Len(primitives[j].edges) = 6
          /\ primitives[j].inner = 5
          /\ primitives[j].outer = 4

\* --------------------------- the MPI driver ------------------------------
\* the driver: largest number of processes
MaxSize == 2

\* The processes share no data: each works on the chunk it was sent and the
\* root gathers the results in rank order.  The model lets the ranks do
\* their work one after the other, in any order.  arg is the record of the
\* driver: size, the chunks `data' of the root, and the rank at work (from
\* 1; None between two ranks and during the last merge).  ret is
\* new_groups: for each rank the list recursive_group_merge returned, or
\* <<>> while the rank has not finished.
InitDriver ==
    /\ pts_subset \in Inputs
    /\ split_pts = <<>>
    /\ primitives = <<>>
    /\ groups = <<>>
    /\ triangulations = <<>>
    /\ gi = 0
    /\ left_e = None
    /\ right_e = None
    /\ base = None
    /\ rcand = None
    /\ lcand = None
    /\ rcand_valid = FALSE
    /\ lcand_valid = FALSE
    /\ pc = "driver"
    /\ \E size \in 1..MaxSize : arg = [size |-> size, data |-> <<>>, rank |-> None]
    /\ ret = <<>>

\* the chunks the root cuts the list of groups into
DriverChunks(positions, size) ==
    LET all_groups == groups_of_3(positions)
        pts_per_core == (Len(all_groups) \div size) + 1
        r == Range(0, Len(all_groups), pts_per_core)
    IN  [k \in DOMAIN r |-> Slice(all_groups, r[k], r[k] + pts_per_core)]

\* lines 32-40: the root splits and scatters; comm.scatter raises unless it
\* is given one item for each process
DriverScatter ==
    /\ pc = "driver"
    /\ arg' = [arg EXCEPT !.data = DriverChunks(pts_subset, arg.size)]
    /\ ret' = [k \in 1..arg.size |-> <<>>]
    /\ pc' = IF Len(arg'.data) = arg.size THEN "scattered" ELSE "raised"
    /\ UNCHANGED program

\* line 42: a rank starts on its chunk
DriverRank ==
    /\ pc = "scattered"
    /\ \E r \in 1..arg.size :
          /\ ret[r] = <<>>
          /\ arg' = [arg EXCEPT !.rank = r]
          /\ split_pts' = arg.data[r]
    /\ primitives' = <<>>
    /\ pc' = "make_primitives"
    /\ UNCHANGED <<ret, pts_subset, groups, triangulations, gi, scratch>>

\* lines 44-47: the rank has its triangulation; the root gathers it
DriverRankDone ==
    /\ pc = "done"
    /\ arg.rank # None
    /\ ret' = [ret EXCEPT ![arg.rank] = groups]
    /\ arg' = [arg EXCEPT !.rank = None]
    /\ groups' = <<>>
    /\ pc' = IF \A r \in 1..arg.size : r = arg.rank \/ ret[r] # <<>>
             THEN "gathered" ELSE "scattered"
    /\ UNCHANGED <<pts_subset, split_pts, primitives, triangulations, gi, scratch>>

\* lines 54-59: the root pairs the results; new_groups[i + 1] raises
\* IndexError when there is no rank i + 1
DriverFinal ==
    /\ pc = "gathered"
    /\ LET r == Range(0, arg.size, 2)
       IN  IF \E k \in DOMAIN r : r[k] + 1 >= arg.size
           THEN /\ pc' = "raised"
                /\ UNCHANGED groups
           ELSE /\ groups' = [k \in DOMAIN r |->
                                <<ret[r[k] + 1][1][1], ret[r[k] + 2][1][1]>>]
                /\ pc' = "recursive_group_merge"
    /\ UNCHANGED <<arg, ret, pts_subset, split_pts, primitives, triangulations,
                   gi, scratch>>

\* line 60: triangulation = triangulation[0][0]
DriverCollect ==
    /\ pc = "done"
    /\ arg.rank = None
    /\ pc' = "returned"
    /\ UNCHANGED <<arg, ret, program>>

NextDriver ==
    \/ DriverScatter
    \/ DriverRank
    \/ MakePrimitive
    \/ MakeGroups
    \/ RecursiveGroupMerge
    \/ MergeTriangulations
    \/ LowestCommonTangent
    \/ CombineTriangulations
    \/ ZipHulls
    \/ RcandFunc
    \/ LcandFunc
    \/ ZipConnect
    \/ DriverRankDone
    \/ DriverFinal
    \/ DriverCollect

SpecDriver == InitDriver /\ [][NextDriver]_vars

\* C29: for every number of processes size >= 1 and every number of groups
\* G >= size, the chunks of int(G / size) + 1 groups are exactly size
\* chunks, none empty, and the driver ends, without raising, with one
\* subdivision that holds every input point, the results merged in rank
\* order
DriverCompletes ==
    (arg.size >= 1 /\ Len(groups_of_3(pts_subset)) >= arg.size) =>
        /\ pc # "raised"
        /\ (pc # "driver") =>
              /\ Len(arg.data) = arg.size
              /\ \A k \in DOMAIN arg.data : arg.data[k] # <<>>
        /\ (pc = "returned") => Returned.points = pts_subset

\* ----------------------- filter_deactivated on its own -------------------
\* filter_deactivated called on the subdivision that triangulate returned.
\* arg keeps the subdivision before the call, ret is the one after it.
FilterCall ==
    /\ pc = "done"
    /\ arg' = Returned
    /\ ret' = filter_deactivated(Returned)
    /\ pc' = "filtered"
    /\ UNCHANGED program

NextFilter ==
    \/ Next
    \/ FilterCall

SpecFilter == Init /\ [][NextFilter]_vars

\* the position after compaction of the half-edge at position j of t: the
\* number of non-deactivated half-edges before it
Compacted(t, j) == Cardinality({i \in ActiveEdges(t) : i < j})

\* C30: after the connect, kill_edge and combine_triangulations steps of
\* triangulate, filter_deactivated leaves exactly the non-deactivated
\* half-edges in their order, the record at position i has index i,
\* num_edges is the length of the arena, and sym, onext, oprev of every
\* remaining half-edge resolve by position to the half-edges they resolved
\* to before the call
CompactionKeepsIndices ==
    (pc = "filtered") =>
        LET t == arg
            t2 == ret
        IN  /\ Len(t2.edges) = Cardinality(ActiveEdges(t))
            /\ \A j \in ActiveEdges(t) :
                  LET r == EdgeAt(t2, Compacted(t, j))
                  IN  /\ r.org = EdgeAt(t, j).org
                      /\ r.dest = EdgeAt(t, j).dest
                      /\ ~r.deactivate
            /\ \A i \in ArenaIdx(t2) : EdgeAt(t2, i).index = i
            /\ t2.num_edges = Len(t2.edges)
            /\ \A j \in ActiveEdges(t) :
                  LET r == EdgeAt(t2, Compacted(t, j))
                  IN  /\ r.sym = Compacted(t, EdgeAt(t, j).sym)
                      /\ r.onext = Compacted(t, EdgeAt(t, j).onext)
                      /\ r.oprev = Compacted(t, EdgeAt(t, j).oprev)

====
